---- MODULE Spec2Model ----
(***************************************************************************)
(* Model of the widget toolkit of src/minesweeper/gui.py: Button,          *)
(* SelectionGroup and Input.  Each widget object is one record variable    *)
(* whose fields carry the names of the attributes of the Python object.    *)
(* Strings that the code edits are sequences of one-character strings.     *)
(* A handler is an operator from the object (and the event's inputs) to a  *)
(* record [self, calls, renders]: the object after the call, the callback  *)
(* invocations the call made, in order, and the number of times it ran     *)
(* _prepare_render.  The variable ev keeps the last event: its inputs, the *)
(* object before the call and what the call invoked.                       *)
(***************************************************************************)
EXTENDS Integers, Sequences, FiniteSets, TLC

VARIABLES input, group, button, label, ev

vars == <<input, group, button, label, ev>>

(***************************************************************************)
(* Bounds of the model and program constants.                              *)
(***************************************************************************)
LEFT_CLICK == 1

\* a mouse button other than the left one
MIDDLE_CLICK == LEFT_CLICK + 1

\* font metrics: a fixed-pitch font, every glyph CharW wide and FontH high
CharW == 1
FontH == 1

\* the longest edit buffer the model lets a key press build
MaxStrLen == 3

\* the configured max_value_length, when one is configured
MaxValueLength == 1

\* the configured width of an Input, when one is configured
InputWidth == 4

\* the most options a SelectionGroup is built with
MaxOptions == 3

\* the longest text a Button is built with
MaxTextLen == 3

\* pointer positions the host may report lie on a grid of glyph cells,
\* columns 0 .. MaxPX
MaxPX == 4

None == {}
Some(x) == {x}

PointerXs == {x * CharW : x \in 0 .. MaxPX}
Buttons == {LEFT_CLICK, MIDDLE_CLICK}

Max(a, b) == IF a >= b THEN a ELSE b

(***************************************************************************)
(* pygame.Rect: integer x, y, w, h.                                        *)
(***************************************************************************)
Rect(x, y, w, h) == [x |-> x, y |-> y, w |-> w, h |-> h]

\* Rect.collidepoint: left and top edges inside, right and bottom outside
collidepoint(r, x, y) ==
    /\ r.x <= x /\ x < r.x + r.w
    /\ r.y <= y /\ y < r.y + r.h

(***************************************************************************)
(* Font: size of a text, and the event loop's key names.                   *)
(***************************************************************************)
FontSize(text) == <<CharW * Len(text), FontH>>

K_BACKSPACE == "K_BACKSPACE"
K_RETURN == "K_RETURN"
K_1 == "K_1"
K_TAB == "K_TAB"

Keys == {K_BACKSPACE, K_RETURN, K_1, K_TAB}

\* pygame.key.name(key)
KeyName(key) ==
    CASE key = K_1 -> <<"1">>
      [] key = K_TAB -> <<"t", "a", "b">>
      [] key = K_BACKSPACE -> <<"b", "a", "c", "k", "s", "p", "a", "c", "e">>
      [] key = K_RETURN -> <<"r", "e", "t", "u", "r", "n">>

(***************************************************************************)
(* Python values passed to Input: a str or an int.                         *)
(***************************************************************************)
PyStr(s) == [type |-> "str", s |-> s, n |-> 0]
PyInt(n) == [type |-> "int", s |-> <<>>, n |-> n]

DigitChars == <<"0", "1", "2", "3", "4", "5", "6", "7", "8", "9">>

RECURSIVE IntToStr(_)
IntToStr(n) ==
    IF n < 10 THEN <<DigitChars[n + 1]>>
    ELSE IntToStr(n \div 10) \o <<DigitChars[(n % 10) + 1]>>

\* str(value)
Str(v) == IF v.type = "str" THEN v.s ELSE IntToStr(v.n)

\* value == self.current_value, where current_value is a str
PyEqStr(v, s) == v.type = "str" /\ v.s = s

Result(self, calls, renders) ==
    [self |-> self, calls |-> calls, renders |-> renders]

(***************************************************************************)
(* Button                                                                  *)
(***************************************************************************)
\* Button.__init__: the frame is 1.2 times the text, truncated to pixels
Button_init(text, on_click_callback, position) ==
    LET text_size == FontSize(text)
        w == (12 * text_size[1]) \div 10
        h == (12 * text_size[2]) \div 10
    IN  [boarder |-> [text |-> text, size |-> <<w, h>>],
         rect |-> Rect(position[1], position[2], w, h),
         on_click_callback |-> on_click_callback]

\* on_mouse_down that does not look at the button pressed
Button_on_mouse_down_any_button(self, btn, mouse_pos) ==
    IF ~self.on_click_callback THEN Result(self, <<>>, 0)
    ELSE IF collidepoint(self.rect, mouse_pos[1], mouse_pos[2])
         THEN Result(self, <<"on_click_callback">>, 0)
         ELSE Result(self, <<>>, 0)

\* Button.on_mouse_down, with pygame.mouse.get_pos() = mouse_pos
Button_on_mouse_down(self, btn, mouse_pos) ==
    IF btn # LEFT_CLICK \/ ~self.on_click_callback THEN Result(self, <<>>, 0)
    ELSE IF collidepoint(self.rect, mouse_pos[1], mouse_pos[2])
         THEN Result(self, <<"on_click_callback">>, 0)
         ELSE Result(self, <<>>, 0)

(***************************************************************************)
(* SelectionGroup                                                          *)
(* Lengths that the code computes as floats are multiples of one half;     *)
(* they are kept doubled (names ending in 2) and halved, truncating, where *)
(* pygame turns them into the integers of a Rect or a Surface.             *)
(***************************************************************************)
GroupTitle == "Level"

Raised(type, message) == [status |-> type, message |-> message]

RECURSIVE MaxOf(_)
MaxOf(seq) ==
    IF Len(seq) = 1 THEN seq[1] ELSE Max(seq[1], MaxOf(Tail(seq)))

\* the markers on the surface after __init__: selected on row 0 only
InitialMarkers(n) ==
    [i \in 1 .. n |-> IF i = 1 THEN "selected_image" ELSE "unselected_image"]

\* a size test that compares only the widths of the two marker images
ImagesDiffer_width_only(unselected_size, selected_size) ==
    unselected_size[1] # selected_size[1]

\* unselected_image.get_size() != selected_image.get_size()
ImagesDiffer(unselected_size, selected_size) ==
    unselected_size # selected_size

\* a row step of half a row: y += 0.5 * item_height, doubled
RowStep2_half(item_height) == item_height

\* y += 1.5 * item_height, doubled
RowStep2(item_height) == 3 * item_height

\* SelectionGroup.__init__
SelectionGroup_init(unselected_size, selected_size, options, on_change_callback, position) ==
    IF ImagesDiffer(unselected_size, selected_size)
    THEN Raised("ValueError",
                "Images of selected and unselected buttons must have equal size")
    ELSE
      LET n_options == Len(options)
          title_size == FontSize(GroupTitle)
          item_height == Max(unselected_size[2], FontH)
          button_width == unselected_size[1]
          item_widths2 == [i \in 1 .. n_options |->
                              3 * button_width + 2 * FontSize(options[i])[1]]
      IN  IF n_options = 0
          THEN Raised("ValueError", "max() arg is an empty sequence")
          ELSE
            LET width2 == Max(MaxOf(item_widths2), 2 * title_size[1])
                height2 == 2 * title_size[2] + item_height
                           + 3 * item_height * n_options
                title_bottom == title_size[2]
                y2(i) == 2 * title_bottom + item_height
                         + RowStep2(item_height) * (i - 1)
            IN  [status |-> "ok",
                 options |-> options,
                 n_options |-> n_options,
                 _selected |-> 0,
                 callback |-> on_change_callback,
                 item_rects |-> [i \in 1 .. n_options |->
                     Rect(0, y2(i) \div 2, item_widths2[i] \div 2, item_height)],
                 button_rects |-> [i \in 1 .. n_options |->
                     Rect(0, y2(i) \div 2, unselected_size[1], unselected_size[2])],
                 markers |-> InitialMarkers(n_options),
                 rect |-> Rect(position[1], position[2],
                               width2 \div 2, height2 \div 2)]

\* the rows whose item rectangle contains the point, in scan order
RowsAt(self, x, y) ==
    {i \in 0 .. self.n_options - 1 : collidepoint(self.item_rects[i + 1], x, y)}

FirstRowAt(self, x, y) ==
    CHOOSE i \in RowsAt(self, x, y) : \A j \in RowsAt(self, x, y) : i <= j

\* one invocation of callback(option): its argument, and _selected and the
\* selected property as they are while the callback runs
Call(self, option) ==
    [arg |-> option, _selected |-> self._selected,
     selected |-> self.options[self._selected + 1]]

\* a re-blit of the new marker that leaves the old one on the surface
Reblit_new_only(self, selected_old) ==
    IF self._selected # selected_old
    THEN [self EXCEPT !.markers[self._selected + 1] = "selected_image"]
    ELSE self

\* the blits of on_mouse_down when the selection has moved from selected_old
Reblit(self, selected_old) ==
    IF self._selected # selected_old
    THEN [self EXCEPT !.markers[selected_old + 1] = "unselected_image",
                      !.markers[self._selected + 1] = "selected_image"]
    ELSE self

\* on_mouse_down that calls the callback even for the selected row
SelectionGroup_on_mouse_down_always_calls(self, btn, mouse_pos) ==
    IF btn # LEFT_CLICK THEN Result(self, <<>>, 0)
    ELSE
      LET x == mouse_pos[1] - self.rect.x
          y == mouse_pos[2] - self.rect.y
      IN  IF RowsAt(self, x, y) = {} THEN Result(self, <<>>, 0)
          ELSE
            LET i == FirstRowAt(self, x, y)
                calls == IF self.callback
                         THEN <<Call(self, self.options[i + 1])>> ELSE <<>>
            IN  Result(Reblit([self EXCEPT !._selected = i], self._selected),
                       calls, 0)

\* on_mouse_down that moves the selection and then calls the callback
SelectionGroup_on_mouse_down_calls_late(self, btn, mouse_pos) ==
    IF btn # LEFT_CLICK THEN Result(self, <<>>, 0)
    ELSE
      LET x == mouse_pos[1] - self.rect.x
          y == mouse_pos[2] - self.rect.y
      IN  IF RowsAt(self, x, y) = {} THEN Result(self, <<>>, 0)
          ELSE
            LET i == FirstRowAt(self, x, y)
                moved == [self EXCEPT !._selected = i]
                calls == IF self.callback /\ i # self._selected
                         THEN <<Call(moved, self.options[i + 1])>> ELSE <<>>
            IN  Result(Reblit(moved, self._selected), calls, 0)

\* SelectionGroup.on_mouse_down, with pygame.mouse.get_pos() = mouse_pos
SelectionGroup_on_mouse_down(self, btn, mouse_pos) ==
    IF btn # LEFT_CLICK THEN Result(self, <<>>, 0)
    ELSE
      LET x == mouse_pos[1] - self.rect.x
          y == mouse_pos[2] - self.rect.y
          selected_old == self._selected
      IN  IF RowsAt(self, x, y) = {} THEN Result(self, <<>>, 0)
          ELSE
            LET i == FirstRowAt(self, x, y)
                calls == IF self.callback /\ i # self._selected
                         THEN <<Call(self, self.options[i + 1])>> ELSE <<>>
            IN  Result(Reblit([self EXCEPT !._selected = i], selected_old),
                       calls, 0)

(***************************************************************************)
(* Input                                                                   *)
(***************************************************************************)
InputTitle == <<"N">>
InputDelimiter == <<" ", " ">>
InputPosition == <<CharW, FontH>>

\* Input._prepare_render: the cached surface (its text, whether the frame is
\* blitted, its size), value_rect, and the size of rect once rect exists
_prepare_render(self) ==
    LET value == IF self.in_input THEN self.current_value \o <<"_">>
                 ELSE self.current_value
        text == self.title \o self.delimiter \o value
        text_w == FontSize(text)[1]
        width == IF self.width = None THEN text_w
                 ELSE CHOOSE w \in self.width : TRUE
        height == FontSize(text)[2]
        text_left == (width \div 2) - (text_w \div 2)
        text_top == (height \div 2) - (height \div 2)
        title_width == FontSize(self.title \o self.delimiter)[1]
        value_width == FontSize(value)[1]
        value_height == FontSize(value)[2]
        margin == FontSize(<<"|">>)[1]
        value_rect == Rect(text_left + title_width - margin, text_top,
                           value_width + 2 * margin, value_height)
    IN  [self EXCEPT
            !.surface = [text |-> text, frame |-> self.active_input,
                         size |-> <<width, height>>],
            !.value_rect = value_rect,
            !.rect = IF self.rect = None THEN None
                     ELSE {[r EXCEPT !.w = width, !.h = height] : r \in self.rect}]

\* Input.__init__
Input_init(value, active_input, width, max_value_length, allowed_symbols, on_enter_callback, position) ==
    LET s0 == [active_input |-> active_input,
               in_input |-> FALSE,
               title |-> InputTitle,
               value |-> Str(value),
               current_value |-> Str(value),
               delimiter |-> InputDelimiter,
               width |-> width,
               max_value_length |-> max_value_length,
               allowed_symbols |-> allowed_symbols,
               on_enter_callback |-> on_enter_callback,
               surface |-> None,
               value_rect |-> None,
               rect |-> None]
        s1 == _prepare_render(s0)
    IN  [s1 EXCEPT !.rect = Some(Rect(position[1], position[2],
                                      s1.surface.size[1], s1.surface.size[2]))]

\* Input.set_value
Input_set_value(self, value) ==
    IF PyEqStr(value, self.current_value) THEN Result(self, <<>>, 0)
    ELSE Result(_prepare_render([self EXCEPT !.current_value = Str(value),
                                             !.value = Str(value)]),
                <<>>, 1)

\* on_mouse_click that does not test active_input
Input_on_mouse_click_any_input(self, btn, mouse_pos) ==
    IF btn # LEFT_CLICK THEN Result(self, <<>>, 0)
    ELSE
      LET r == CHOOSE r \in self.rect : TRUE
          x == mouse_pos[1] - r.x
          y == mouse_pos[2] - r.y
      IN  IF collidepoint(self.value_rect, x, y)
          THEN Result(_prepare_render([self EXCEPT !.in_input = TRUE]), <<>>, 1)
          ELSE Result(_prepare_render([self EXCEPT !.in_input = FALSE,
                                                   !.current_value = self.value]),
                      <<>>, 1)

\* on_mouse_click that leaves the edit buffer when the click is outside
Input_on_mouse_click_keep_buffer(self, btn, mouse_pos) ==
    IF ~self.active_input \/ btn # LEFT_CLICK THEN Result(self, <<>>, 0)
    ELSE
      LET r == CHOOSE r \in self.rect : TRUE
          x == mouse_pos[1] - r.x
          y == mouse_pos[2] - r.y
      IN  IF collidepoint(self.value_rect, x, y)
          THEN Result(_prepare_render([self EXCEPT !.in_input = TRUE]), <<>>, 1)
          ELSE Result(_prepare_render([self EXCEPT !.in_input = FALSE]), <<>>, 1)

\* on_mouse_click that tests the pointer without translating it by rect
Input_on_mouse_click_untranslated(self, btn, mouse_pos) ==
    IF ~self.active_input \/ btn # LEFT_CLICK THEN Result(self, <<>>, 0)
    ELSE
      IF collidepoint(self.value_rect, mouse_pos[1], mouse_pos[2])
      THEN Result(_prepare_render([self EXCEPT !.in_input = TRUE]), <<>>, 1)
      ELSE Result(_prepare_render([self EXCEPT !.in_input = FALSE,
                                               !.current_value = self.value]),
                  <<>>, 1)

\* Input.on_mouse_click, with pygame.mouse.get_pos() = mouse_pos
Input_on_mouse_click(self, btn, mouse_pos) ==
    IF ~self.active_input \/ btn # LEFT_CLICK THEN Result(self, <<>>, 0)
    ELSE
      LET r == CHOOSE r \in self.rect : TRUE
          x == mouse_pos[1] - r.x
          y == mouse_pos[2] - r.y
      IN  IF collidepoint(self.value_rect, x, y)
          THEN Result(_prepare_render([self EXCEPT !.in_input = TRUE]), <<>>, 1)
          ELSE Result(_prepare_render([self EXCEPT !.in_input = FALSE,
                                                   !.current_value = self.value]),
                      <<>>, 1)

\* on_key_press whose Enter keeps the edit buffer when the callback rejects
Input_on_key_press_keep_rejected(self, key, accept) ==
    IF ~self.in_input THEN Result(self, <<>>, 0)
    ELSE IF key = K_RETURN THEN
      IF self.on_enter_callback
      THEN IF accept
           THEN Result(_prepare_render([self EXCEPT !.in_input = FALSE,
                                                    !.value = self.current_value]),
                       <<self.current_value>>, 1)
           ELSE Result(_prepare_render([self EXCEPT !.in_input = FALSE]),
                       <<self.current_value>>, 1)
      ELSE Result(_prepare_render([self EXCEPT !.in_input = FALSE,
                                               !.value = self.current_value]),
                  <<>>, 1)
    ELSE IF key = K_BACKSPACE THEN
      IF self.current_value # <<>>
      THEN Result(_prepare_render(
                    [self EXCEPT !.current_value =
                        SubSeq(self.current_value, 1, Len(self.current_value) - 1)]),
                  <<>>, 1)
      ELSE Result(self, <<>>, 0)
    ELSE
      IF Len(self.current_value) \in self.max_value_length
      THEN Result(self, <<>>, 0)
      ELSE
        LET key_name == KeyName(key)
        IN  IF ~self.allowed_symbols.filter \/ key_name \in self.allowed_symbols.symbols
            THEN Result(_prepare_render(
                          [self EXCEPT !.current_value = self.current_value \o key_name]),
                        <<>>, 1)
            ELSE Result(self, <<>>, 0)

\* a Backspace branch that does not re-render
OnBackspace_no_render(self) ==
    IF self.current_value # <<>>
    THEN Result([self EXCEPT !.current_value =
                    SubSeq(self.current_value, 1, Len(self.current_value) - 1)],
                <<>>, 0)
    ELSE Result(self, <<>>, 0)

\* the Backspace branch of on_key_press
OnBackspace(self) ==
    IF self.current_value # <<>>
    THEN Result(_prepare_render(
                  [self EXCEPT !.current_value =
                      SubSeq(self.current_value, 1, Len(self.current_value) - 1)]),
                <<>>, 1)
    ELSE Result(self, <<>>, 0)

\* an Enter branch that hands the committed value to the callback
OnReturn_calls_with_value(self, accept) ==
    IF self.on_enter_callback
    THEN IF accept
         THEN Result(_prepare_render([self EXCEPT !.in_input = FALSE,
                                                  !.value = self.current_value]),
                     <<self.value>>, 1)
         ELSE Result(_prepare_render([self EXCEPT !.in_input = FALSE,
                                                  !.current_value = self.value]),
                     <<self.value>>, 1)
    ELSE Result(_prepare_render([self EXCEPT !.in_input = FALSE,
                                             !.value = self.current_value]),
                <<>>, 1)

\* the Enter branch of on_key_press
OnReturn(self, accept) ==
    IF self.on_enter_callback
    THEN IF accept
         THEN Result(_prepare_render([self EXCEPT !.in_input = FALSE,
                                                  !.value = self.current_value]),
                     <<self.current_value>>, 1)
         ELSE Result(_prepare_render([self EXCEPT !.in_input = FALSE,
                                                  !.current_value = self.value]),
                     <<self.current_value>>, 1)
    ELSE Result(_prepare_render([self EXCEPT !.in_input = FALSE,
                                             !.value = self.current_value]),
                <<>>, 1)

\* len(self.current_value) == self.max_value_length
AtMaxLength(self) == Len(self.current_value) \in self.max_value_length

\* a filter test that lets every key name through
SymbolAllowed_any(self, key_name) == TRUE

\* self.allowed_symbols is None or key_name in self.allowed_symbols
SymbolAllowed(self, key_name) ==
    ~self.allowed_symbols.filter \/ key_name \in self.allowed_symbols.symbols

\* the branch of on_key_press for every other key
OnOtherKey(self, key) ==
    IF AtMaxLength(self) THEN Result(self, <<>>, 0)
    ELSE
      LET key_name == KeyName(key)
      IN  IF SymbolAllowed(self, key_name)
          THEN Result(_prepare_render(
                        [self EXCEPT !.current_value = self.current_value \o key_name]),
                      <<>>, 1)
          ELSE Result(self, <<>>, 0)

\* on_key_press that tests the maximum length before it looks at the key
Input_on_key_press_cap_first(self, key, accept) ==
    IF ~self.in_input THEN Result(self, <<>>, 0)
    ELSE IF AtMaxLength(self) THEN Result(self, <<>>, 0)
    ELSE IF key = K_BACKSPACE THEN OnBackspace(self)
    ELSE IF key = K_RETURN THEN OnReturn(self, accept)
    ELSE OnOtherKey(self, key)

\* Input.on_key_press; accept is what on_enter_callback returns if it is called
Input_on_key_press(self, key, accept) ==
    IF ~self.in_input THEN Result(self, <<>>, 0)
    ELSE IF key = K_BACKSPACE THEN OnBackspace(self)
    ELSE IF key = K_RETURN THEN OnReturn(self, accept)
    ELSE OnOtherKey(self, key)

(***************************************************************************)
(* The last event.                                                         *)
(***************************************************************************)
Event(op, args, pre, res) ==
    [op |-> op, args |-> args, pre |-> pre, calls |-> res.calls,
     renders |-> res.renders, raised |-> FALSE]

NoArgs == [none |-> TRUE]
NoEvent == [op |-> "init", args |-> NoArgs, pre |-> None, calls |-> <<>>,
            renders |-> 0, raised |-> FALSE]

(***************************************************************************)
(* Inputs of the Input specification.                                      *)
(***************************************************************************)
AnySymbol == [filter |-> FALSE, symbols |-> {}]
OnlySymbols(S) == [filter |-> TRUE, symbols |-> S]

InitialValues == {PyStr(<<>>), PyInt(1)}
SetValueArgs == {PyStr(<<"1">>), PyInt(11)}
AllowedSymbolsChoices == {AnySymbol, OnlySymbols({<<"0">>, <<"1">>})}

\* pointer positions tried on the Input: above it and on its row
InputPointers == PointerXs \X {0, FontH}

NoInput == [constructed |-> FALSE]
NoGroup == [constructed |-> FALSE]
NoButton == [constructed |-> FALSE]
NoLabel == [constructed |-> FALSE]

InitInput ==
    /\ \E value \in InitialValues, active_input \in BOOLEAN,
          width \in {None, Some(InputWidth)},
          max_value_length \in {None, Some(MaxValueLength)},
          allowed_symbols \in AllowedSymbolsChoices,
          on_enter_callback \in BOOLEAN :
            input = Input_init(value, active_input, width, max_value_length,
                               allowed_symbols, on_enter_callback, InputPosition)
    /\ group = NoGroup
    /\ button = NoButton
    /\ label = NoLabel
    /\ ev = NoEvent

SetValue ==
    \E value \in SetValueArgs :
        LET res == Input_set_value(input, value)
        IN  /\ input' = res.self
            /\ ev' = Event("set_value", [value |-> value], input, res)
            /\ UNCHANGED <<group, button, label>>

MouseClick ==
    \E btn \in Buttons, mouse_pos \in InputPointers :
        LET res == Input_on_mouse_click(input, btn, mouse_pos)
        IN  /\ input' = res.self
            /\ ev' = Event("on_mouse_click",
                           [button |-> btn, mouse_pos |-> mouse_pos], input, res)
            /\ UNCHANGED <<group, button, label>>

KeyPress ==
    \E key \in Keys :
      \E accept \in IF input.in_input /\ key = K_RETURN /\ input.on_enter_callback
                    THEN BOOLEAN ELSE {FALSE} :
        LET res == Input_on_key_press(input, key, accept)
        IN  /\ Len(res.self.current_value) <= MaxStrLen
            /\ input' = res.self
            /\ ev' = Event("on_key_press", [key |-> key, accept |-> accept],
                           input, res)
            /\ UNCHANGED <<group, button, label>>

NextInput == SetValue \/ MouseClick \/ KeyPress

SpecInput == InitInput /\ [][NextInput]_vars

(***************************************************************************)
(* Inputs of the SelectionGroup specification.                             *)
(***************************************************************************)
OptionLabels == <<"Easy", "Medium", "Hard", "Custom", "Expert">>
OptionLists == {SubSeq(OptionLabels, 1, n) : n \in 0 .. MaxOptions}

\* sizes of the marker images
MarkerSizes ==
    {<<CharW, FontH>>, <<CharW, 2 * FontH>>, <<2 * CharW, 2 * FontH>>,
     <<CharW, 3 * FontH>>}

GroupPosition == <<CharW, FontH>>

\* pointer positions tried on the SelectionGroup: one per text line, from
\* above the widget to below its last row
GroupPointers == PointerXs \X {k * FontH : k \in 0 .. 3 * MaxOptions + 2}

NewGroup == [status |-> "new"]

InitGroup ==
    /\ group = NewGroup
    /\ input = NoInput
    /\ button = NoButton
    /\ label = NoLabel
    /\ ev = NoEvent

Construct ==
    /\ group.status = "new"
    /\ \E unselected_size \in MarkerSizes, selected_size \in MarkerSizes,
          options \in OptionLists, on_change_callback \in BOOLEAN :
            /\ group' = SelectionGroup_init(unselected_size, selected_size,
                                            options, on_change_callback,
                                            GroupPosition)
            /\ ev' = [op |-> "__init__",
                      args |-> [unselected_size |-> unselected_size,
                                selected_size |-> selected_size,
                                options |-> options],
                      pre |-> group, calls |-> <<>>, renders |-> 0,
                      raised |-> FALSE]
    /\ UNCHANGED <<input, button, label>>

GroupMouseDown ==
    /\ group.status = "ok"
    /\ \E btn \in Buttons, mouse_pos \in GroupPointers :
        LET res == SelectionGroup_on_mouse_down(group, btn, mouse_pos)
        IN  /\ group' = res.self
            /\ ev' = Event("on_mouse_down",
                           [button |-> btn, mouse_pos |-> mouse_pos], group, res)
    /\ UNCHANGED <<input, button, label>>

NextGroup == Construct \/ GroupMouseDown

SpecGroup == InitGroup /\ [][NextGroup]_vars

(***************************************************************************)
(* Inputs of the Button specification.                                     *)
(***************************************************************************)
ButtonTexts == {SubSeq(<<"S", "t", "a", "r", "t">>, 1, n) : n \in 1 .. MaxTextLen}
ButtonPositions == {<<0, 0>>, <<CharW, FontH>>}

\* pointer positions tried on the Button
ButtonPointers == PointerXs \X {k * FontH : k \in 0 .. 2}

InitButton ==
    /\ \E text \in ButtonTexts, on_click_callback \in BOOLEAN,
          position \in ButtonPositions :
            button = Button_init(text, on_click_callback, position)
    /\ input = NoInput
    /\ group = NoGroup
    /\ label = NoLabel
    /\ ev = NoEvent

ButtonMouseDown ==
    \E btn \in Buttons, mouse_pos \in ButtonPointers :
        LET res == Button_on_mouse_down(button, btn, mouse_pos)
        IN  /\ button' = res.self
            /\ ev' = Event("on_mouse_down",
                           [button |-> btn, mouse_pos |-> mouse_pos], button, res)
            /\ UNCHANGED <<input, group, label>>

NextButton == ButtonMouseDown

SpecButton == InitButton /\ [][NextButton]_vars

(***************************************************************************)
(* Properties of Input.                                                    *)
(***************************************************************************)
IsSetValue == ev.op = "set_value"
IsMouseClick == ev.op = "on_mouse_click"
IsKeyPress == ev.op = "on_key_press"

\* the value of max_value_length, when one is configured
MaxLenOf(self) == CHOOSE m \in self.max_value_length : TRUE

\* C1: whenever the Input is not in edit mode, the pending value
\* (current_value) equals the committed value (value).
C1_NotEditingPendingIsCommitted ==
    ~input.in_input => input.current_value = input.value

\* C1 witness: a click outside the value has just ended an edit whose buffer
\* differed from the committed value.
C1_Witness ==
    /\ IsMouseClick
    /\ ev.pre.in_input
    /\ ev.pre.current_value # ev.pre.value
    /\ ~input.in_input

\* C2: Enter while editing leaves edit mode; with no callback it commits the
\* pending value, with a rejecting callback it reverts the pending value to
\* the prior committed value and keeps the committed value, with an accepting
\* callback it commits the pending value.
C2_EnterCommitsOrReverts ==
    (IsKeyPress /\ ev.args.key = K_RETURN /\ ev.pre.in_input) =>
        /\ ~input.in_input
        /\ ~ev.pre.on_enter_callback =>
              /\ input.value = ev.pre.current_value
              /\ input.current_value = ev.pre.current_value
        /\ (ev.pre.on_enter_callback /\ ~ev.args.accept) =>
              /\ input.current_value = ev.pre.value
              /\ input.value = ev.pre.value
        /\ (ev.pre.on_enter_callback /\ ev.args.accept) =>
              /\ input.value = ev.pre.current_value
              /\ input.current_value = ev.pre.current_value

\* C2 witness: Enter pressed on an edited buffer and rejected by the callback.
C2_Witness ==
    /\ IsKeyPress /\ ev.args.key = K_RETURN /\ ev.pre.in_input
    /\ ev.pre.on_enter_callback /\ ~ev.args.accept
    /\ ev.pre.current_value # ev.pre.value
    /\ ~input.in_input

\* C3: with max_value_length = M, a key press received while editing a
\* pending value of length at most M leaves a pending value of length at
\* most M, and leaves it unchanged when it is a character-appending key and
\* the length was already M.
C3_LengthNeverExceedsMax ==
    (IsKeyPress /\ ev.pre.in_input /\ ev.pre.max_value_length # None
        /\ Len(ev.pre.current_value) <= MaxLenOf(ev.pre)) =>
        /\ Len(input.current_value) <= MaxLenOf(ev.pre)
        /\ (ev.args.key \notin {K_BACKSPACE, K_RETURN}
               /\ Len(ev.pre.current_value) = MaxLenOf(ev.pre)) =>
              input.current_value = ev.pre.current_value

\* C4: set_value(v) with v equal to the committed value re-renders nothing
\* and changes nothing; with v different from the committed value it makes
\* the committed and the pending value str(v).
C4_SetValueComparesCommitted ==
    IsSetValue =>
        IF PyEqStr(ev.args.value, ev.pre.value)
        THEN ev.renders = 0 /\ input = ev.pre
        ELSE /\ input.value = Str(ev.args.value)
             /\ input.current_value = Str(ev.args.value)

\* the pointer of the last click, in the widget's coordinates before the call
ClickLocal ==
    LET r == CHOOSE r \in ev.pre.rect : TRUE
    IN  <<ev.args.mouse_pos[1] - r.x, ev.args.mouse_pos[2] - r.y>>

ClickInsideValue ==
    collidepoint(ev.pre.value_rect, ClickLocal[1], ClickLocal[2])

\* C10: a left click on an editable Input enters edit mode and keeps the
\* pending value when the pointer, in local coordinates, is inside the value
\* sub-rectangle, and otherwise leaves edit mode and resets the pending value
\* to the committed value; no click changes the committed value or invokes
\* the enter callback; a click with another button, or on an Input that is
\* not editable, changes nothing.
C10_MouseClick ==
    IsMouseClick =>
        /\ input.value = ev.pre.value
        /\ ev.calls = <<>>
        /\ IF ev.pre.active_input /\ ev.args.button = LEFT_CLICK
           THEN IF ClickInsideValue
                THEN input.in_input /\ input.current_value = ev.pre.current_value
                ELSE ~input.in_input /\ input.current_value = ev.pre.value
           ELSE input = ev.pre /\ ev.renders = 0

\* C10 witness: a left click inside the value of an Input that was not being
\* edited has put it in edit mode.
C10_Witness ==
    /\ IsMouseClick
    /\ ev.pre.active_input /\ ev.args.button = LEFT_CLICK
    /\ ClickInsideValue
    /\ ~ev.pre.in_input
    /\ input.in_input

(***************************************************************************)
(* Properties of SelectionGroup.                                           *)
(***************************************************************************)
IsGroupInit == ev.op = "__init__"
IsGroupMouseDown == group.status = "ok" /\ ev.op = "on_mouse_down"

\* the rows of the group, before the last call, that contain its pointer
ClickedRows ==
    {i \in 0 .. ev.pre.n_options - 1 :
        collidepoint(ev.pre.item_rects[i + 1],
                     ev.args.mouse_pos[1] - ev.pre.rect.x,
                     ev.args.mouse_pos[2] - ev.pre.rect.y)}

\* C5: a left click inside row i while another row is selected invokes the
\* change callback (when one is registered) exactly once, with options[i],
\* and leaves _selected = i; a left click inside the selected row invokes it
\* zero times and leaves the selection; a click outside every row, or with
\* another button, leaves the selection and invokes nothing.
C5_ClickSelectsRow ==
    IsGroupMouseDown =>
        IF ev.args.button = LEFT_CLICK /\ ClickedRows # {}
        THEN \A i \in ClickedRows :
                /\ group._selected = i
                /\ IF i # ev.pre._selected /\ ev.pre.callback
                   THEN /\ Len(ev.calls) = 1
                        /\ ev.calls[1].arg = ev.pre.options[i + 1]
                   ELSE ev.calls = <<>>
        ELSE /\ group._selected = ev.pre._selected
             /\ ev.calls = <<>>

\* C5 witness: a left click inside a row other than the selected one has
\* invoked the callback once.
C5_Witness ==
    /\ IsGroupMouseDown
    /\ ev.args.button = LEFT_CLICK
    /\ \E i \in ClickedRows : i # ev.pre._selected /\ i = group._selected
    /\ Len(ev.calls) = 1

\* C6: _selected is a valid row, and the marker on the cached surface is the
\* selected image on row _selected and the unselected image on every other.
C6_ExactlyOneMarked ==
    group.status = "ok" =>
        /\ group._selected \in 0 .. group.n_options - 1
        /\ \A i \in 0 .. group.n_options - 1 :
              group.markers[i + 1] =
                 IF i = group._selected THEN "selected_image"
                 ELSE "unselected_image"

\* C6 witness: the selection has moved off row 0 and then to another row.
C6_Witness ==
    /\ IsGroupMouseDown
    /\ ev.pre._selected # 0
    /\ group._selected # ev.pre._selected
    /\ group._selected # 0

\* C7, as stated: marker images of different sizes make construction fail
\* with ValueError, and equal sizes make it succeed with _selected = 0, for
\* every list of options.
C7_ConstructAnyOptions ==
    IsGroupInit =>
        IF ev.args.unselected_size # ev.args.selected_size
        THEN group.status = "ValueError"
        ELSE group.status = "ok" /\ group._selected = 0

\* C7, amended: marker images of different sizes make construction fail with
\* the ValueError about image sizes; with equal sizes construction succeeds
\* with _selected = 0 for every non-empty list of options, and fails with a
\* ValueError (max of an empty sequence) for the empty list.
C7_ConstructNonEmptyOptions ==
    IsGroupInit =>
        IF ev.args.unselected_size # ev.args.selected_size
        THEN /\ group.status = "ValueError"
             /\ group.message =
                  "Images of selected and unselected buttons must have equal size"
        ELSE IF ev.args.options # <<>>
        THEN group.status = "ok" /\ group._selected = 0
        ELSE /\ group.status = "ValueError"
             /\ group.message = "max() arg is an empty sequence"

\* C7 witness: construction from images equal in width and different in
\* height has failed.
C7_Witness ==
    /\ IsGroupInit
    /\ ev.args.unselected_size # ev.args.selected_size
    /\ ev.args.unselected_size[1] = ev.args.selected_size[1]
    /\ group.status = "ValueError"

\* C8: while the change callback runs with options[i], _selected and the
\* selected property still name the row selected before the click; _selected
\* is i once the handler has returned.
C8_CallbackBeforeUpdate ==
    IsGroupMouseDown =>
        \A k \in 1 .. Len(ev.calls) :
            /\ ev.calls[k]._selected = ev.pre._selected
            /\ ev.calls[k].selected = ev.pre.options[ev.pre._selected + 1]
            /\ ev.calls[k].arg = group.options[group._selected + 1]
            /\ group._selected # ev.pre._selected

\* C8 witness: the callback has run for a row other than the selected one.
C8_Witness ==
    /\ IsGroupMouseDown
    /\ Len(ev.calls) = 1
    /\ ev.calls[1].arg # ev.calls[1].selected
    /\ ev.pre._selected # 0

(***************************************************************************)
(* Properties of Button.                                                   *)
(***************************************************************************)
PointerInButton ==
    collidepoint(ev.pre.rect, ev.args.mouse_pos[1], ev.args.mouse_pos[2])

\* C9: on_mouse_down invokes the click callback exactly once when the button
\* is the left one, a callback is registered and the pointer is inside rect,
\* and zero times otherwise; the Button itself is unchanged.
C9_ButtonMouseDown ==
    ev.op = "on_mouse_down" =>
        /\ button = ev.pre
        /\ IF /\ ev.args.button = LEFT_CLICK
              /\ ev.pre.on_click_callback
              /\ PointerInButton
           THEN ev.calls = <<"on_click_callback">>
           ELSE ev.calls = <<>>

\* C9 witness: a left click on the top-left pixel of a Button with a
\* callback has invoked it once.
C9_Witness ==
    /\ ev.op = "on_mouse_down"
    /\ ev.args.button = LEFT_CLICK
    /\ ev.args.mouse_pos = <<ev.pre.rect.x, ev.pre.rect.y>>
    /\ ev.calls = <<"on_click_callback">>
    /\ ev.pre.rect.x > 0

(***************************************************************************)
(* Further properties of Input.                                            *)
(***************************************************************************)
IsAppendingKey == IsKeyPress /\ ev.args.key \notin {K_BACKSPACE, K_RETURN}

BelowMaxLength(self) ==
    self.max_value_length = None \/ Len(self.current_value) < MaxLenOf(self)

\* C11: with an allowed_symbols filter, while editing, a key other than
\* Backspace and Enter whose name is not in allowed_symbols leaves the
\* pending value unchanged, and one whose name is in allowed_symbols, pressed
\* below the maximum length, appends exactly that name; whatever such a key
\* appends is a name in allowed_symbols.
C11_FilterDecidesAppend ==
    (IsAppendingKey /\ ev.pre.in_input /\ ev.pre.allowed_symbols.filter) =>
        /\ IF KeyName(ev.args.key) \notin ev.pre.allowed_symbols.symbols
           THEN input.current_value = ev.pre.current_value
           ELSE BelowMaxLength(ev.pre) =>
                  input.current_value = ev.pre.current_value \o KeyName(ev.args.key)
        /\ input.current_value # ev.pre.current_value =>
              \E name \in ev.pre.allowed_symbols.symbols :
                  input.current_value = ev.pre.current_value \o name

\* C11 witness: with a filter, an allowed key pressed on a non-empty buffer
\* has been appended.
C11_Witness ==
    /\ IsAppendingKey /\ ev.pre.in_input /\ ev.pre.allowed_symbols.filter
    /\ ev.pre.current_value # <<>>
    /\ input.current_value = ev.pre.current_value \o KeyName(ev.args.key)

\* C11 witness of the other case: with a filter, a key whose name is not
\* allowed has been pressed below the maximum length and ignored.
C11_WitnessIgnored ==
    /\ IsAppendingKey /\ ev.pre.in_input /\ ev.pre.allowed_symbols.filter
    /\ KeyName(ev.args.key) \notin ev.pre.allowed_symbols.symbols
    /\ BelowMaxLength(ev.pre)
    /\ input.current_value = ev.pre.current_value

\* C12: the frame around the value sub-rectangle is on the cached surface if
\* and only if the Input is in edit mode.
C12_FrameIffEditing ==
    input.surface.frame <=> input.in_input

(***************************************************************************)
(* Input when rendering fails.  font.render and pygame.Surface can raise    *)
(* inside _prepare_render; they run before _prepare_render assigns surface, *)
(* value_rect and rect.size, and after the handler has made its own         *)
(* assignments.  The exception leaves the handler and reaches the host's    *)
(* event loop, where the model stops.                                       *)
(***************************************************************************)
\* the object after a handler whose _prepare_render raised: res is what the
\* handler yields when rendering succeeds
RenderFails(pre, res) ==
    [res.self EXCEPT !.surface = pre.surface,
                     !.value_rect = pre.value_rect,
                     !.rect = pre.rect]

RaisedEvent(op, args, pre, res) ==
    [op |-> op, args |-> args, pre |-> pre, calls |-> res.calls,
     renders |-> res.renders, raised |-> TRUE]

SetValueRenderFails ==
    \E value \in SetValueArgs :
        LET res == Input_set_value(input, value)
        IN  /\ ~ev.raised
            /\ res.renders > 0
            /\ input' = RenderFails(input, res)
            /\ ev' = RaisedEvent("set_value", [value |-> value], input, res)
            /\ UNCHANGED <<group, button, label>>

MouseClickRenderFails ==
    \E btn \in Buttons, mouse_pos \in InputPointers :
        LET res == Input_on_mouse_click(input, btn, mouse_pos)
        IN  /\ ~ev.raised
            /\ res.renders > 0
            /\ input' = RenderFails(input, res)
            /\ ev' = RaisedEvent("on_mouse_click",
                                 [button |-> btn, mouse_pos |-> mouse_pos],
                                 input, res)
            /\ UNCHANGED <<group, button, label>>

KeyPressRenderFails ==
    \E key \in Keys :
      \E accept \in IF input.in_input /\ key = K_RETURN /\ input.on_enter_callback
                    THEN BOOLEAN ELSE {FALSE} :
        LET res == Input_on_key_press(input, key, accept)
        IN  /\ ~ev.raised
            /\ res.renders > 0
            /\ Len(res.self.current_value) <= MaxStrLen
            /\ input' = RenderFails(input, res)
            /\ ev' = RaisedEvent("on_key_press", [key |-> key, accept |-> accept],
                                 input, res)
            /\ UNCHANGED <<group, button, label>>

\* the handlers when rendering succeeds, while no exception has been raised
SetValueReturns == ~ev.raised /\ SetValue
MouseClickReturns == ~ev.raised /\ MouseClick
KeyPressReturns == ~ev.raised /\ KeyPress

NextInputRender ==
    \/ SetValueReturns
    \/ MouseClickReturns
    \/ KeyPressReturns
    \/ SetValueRenderFails
    \/ MouseClickRenderFails
    \/ KeyPressRenderFails

SpecInputRender == InitInput /\ [][NextInputRender]_vars

\* C13: when the re-render of set_value, on_mouse_click or on_key_press
\* fails, value, current_value and in_input are as they were before the call.
C13_StateKeptWhenRenderFails ==
    ev.raised =>
        /\ input.value = ev.pre.value
        /\ input.current_value = ev.pre.current_value
        /\ input.in_input = ev.pre.in_input

(***************************************************************************)
(* Label                                                                   *)
(***************************************************************************)
\* font.render(text, False, font_color): the surface, of the text's size
LabelRender(text) == [text |-> text, size |-> FontSize(text)]

\* Label.__init__
Label_init(text, position) ==
    LET surface == LabelRender(text)
    IN  [surface |-> surface,
         rect |-> Rect(position[1], position[2], surface.size[1], surface.size[2])]

\* Label.set_text
Label_set_text(self, text) ==
    Result([self EXCEPT !.surface = LabelRender(text)], <<>>, 1)

LabelTexts == {SubSeq(<<"M", "i", "n", "e", "s">>, 1, n) : n \in 1 .. MaxTextLen + 1}
LabelPositions == {<<0, 0>>, <<CharW, FontH>>}

InitLabel ==
    /\ \E text \in LabelTexts, position \in LabelPositions :
          label = Label_init(text, position)
    /\ input = NoInput
    /\ group = NoGroup
    /\ button = NoButton
    /\ ev = NoEvent

SetText ==
    \E text \in LabelTexts :
        LET res == Label_set_text(label, text)
        IN  /\ label' = res.self
            /\ ev' = Event("set_text", [text |-> text], label, res)
            /\ UNCHANGED <<input, group, button>>

NextLabel == SetText

SpecLabel == InitLabel /\ [][NextLabel]_vars

\* C14: set_text leaves the position of the bounding rect where construction
\* put it, and the size of the bounding rect is the size of the cached
\* surface.
C14_RectFollowsSurface ==
    /\ <<label.rect.w, label.rect.h>> = label.surface.size
    /\ ev.op = "set_text" =>
          /\ label.rect.x = ev.pre.rect.x
          /\ label.rect.y = ev.pre.rect.y

(***************************************************************************)
(* Properties of Input, continued.                                         *)
(***************************************************************************)
DropLast(seq) == IF seq = <<>> THEN <<>> ELSE SubSeq(seq, 1, Len(seq) - 1)

\* C15: while editing, whatever max_value_length and allowed_symbols are,
\* Backspace removes the last character of a non-empty pending value (and
\* leaves an empty one), and Enter ends edit mode and commits or reverts.
C15_BackspaceEnterNeverBlocked ==
    (IsKeyPress /\ ev.pre.in_input) =>
        /\ ev.args.key = K_BACKSPACE =>
              /\ input.current_value = DropLast(ev.pre.current_value)
              /\ input.value = ev.pre.value
              /\ input.in_input
        /\ ev.args.key = K_RETURN =>
              /\ ~input.in_input
              /\ \/ /\ input.value = ev.pre.current_value
                    /\ input.current_value = ev.pre.current_value
                 \/ /\ input.value = ev.pre.value
                    /\ input.current_value = ev.pre.value

\* C15 witness: Backspace pressed with the pending value at max_value_length
\* and a filter that does not hold its name has removed the last character.
C15_Witness ==
    /\ IsKeyPress /\ ev.pre.in_input /\ ev.args.key = K_BACKSPACE
    /\ ev.pre.max_value_length # None
    /\ Len(ev.pre.current_value) = MaxLenOf(ev.pre)
    /\ ev.pre.allowed_symbols.filter
    /\ KeyName(K_BACKSPACE) \notin ev.pre.allowed_symbols.symbols
    /\ Len(input.current_value) = Len(ev.pre.current_value) - 1

\* C15 witness for Enter: pressed at max_value_length under a filter, it has
\* committed a pending value that differed from the committed one.
C15_WitnessEnter ==
    /\ IsKeyPress /\ ev.pre.in_input /\ ev.args.key = K_RETURN
    /\ ev.pre.max_value_length # None
    /\ Len(ev.pre.current_value) = MaxLenOf(ev.pre)
    /\ ev.pre.allowed_symbols.filter
    /\ ev.pre.current_value # ev.pre.value
    /\ input.value = ev.pre.current_value

\* the text the surface of an Input in this state is meant to show
ShownText(self) ==
    self.title \o self.delimiter \o self.current_value
        \o (IF self.in_input THEN <<"_">> ELSE <<>>)

\* C16: after every set_value, on_mouse_click and on_key_press the text on
\* the cached surface is title + delimiter + pending value, followed by the
\* cursor '_' exactly when the Input is in edit mode; a call that did not
\* re-render changed neither the pending value nor the edit flag.
C16_SurfaceShowsState ==
    /\ input.surface.text = ShownText(input)
    /\ (ev.op \in {"set_value", "on_mouse_click", "on_key_press"}
           /\ ev.renders = 0) =>
          /\ input.current_value = ev.pre.current_value
          /\ input.in_input = ev.pre.in_input

\* C16 witness: Backspace has shortened the pending value of an Input that
\* is still in edit mode.
C16_Witness ==
    /\ IsKeyPress /\ ev.args.key = K_BACKSPACE
    /\ input.in_input
    /\ input.current_value # ev.pre.current_value
    /\ ev.renders = 1

\* C17: an Input built with active_input = false is never in edit mode, and
\* no on_mouse_click or on_key_press changes its committed or pending value
\* or invokes the enter callback.
C17_InactiveInputNeverEdits ==
    ~input.active_input =>
        /\ ~input.in_input
        /\ (IsMouseClick \/ IsKeyPress) =>
              /\ input.value = ev.pre.value
              /\ input.current_value = ev.pre.current_value
              /\ ev.calls = <<>>

\* C17 witness: a left click inside the value of an Input that is not
\* editable and shows a non-empty value has changed nothing.
C17_Witness ==
    /\ ~input.active_input
    /\ IsMouseClick /\ ev.args.button = LEFT_CLICK
    /\ ClickInsideValue
    /\ ev.pre.surface.text # ev.pre.title \o ev.pre.delimiter
    /\ input = ev.pre

\* C18: the enter callback (when one is registered) is invoked exactly once
\* by an Enter key press received in edit mode, with the pending value of
\* that moment, and by no other event.
C18_CallbackOncePerEnter ==
    ev.op \in {"set_value", "on_mouse_click", "on_key_press"} =>
        ev.calls =
            IF /\ IsKeyPress /\ ev.args.key = K_RETURN
               /\ ev.pre.in_input /\ ev.pre.on_enter_callback
            THEN <<ev.pre.current_value>>
            ELSE <<>>

\* C18 witness: Enter pressed on an edited buffer has invoked the callback
\* with the pending value, which differed from the committed one.
C18_Witness ==
    /\ IsKeyPress /\ ev.args.key = K_RETURN
    /\ ev.pre.in_input /\ ev.pre.on_enter_callback
    /\ ev.pre.current_value # ev.pre.value
    /\ ev.calls = <<ev.pre.current_value>>
    /\ ev.args.accept

(***************************************************************************)
(* Layout of SelectionGroup.                                               *)
(***************************************************************************)
\* C19: the item rectangles of a SelectionGroup are pairwise disjoint: each
\* row starts at or below the bottom of the row before it, so no point of
\* the widget lies in more than one row.
C19_RowsDisjoint ==
    group.status = "ok" =>
        /\ \A k \in 1 .. group.n_options - 1 :
              group.item_rects[k + 1].y >=
                  group.item_rects[k].y + group.item_rects[k].h
        /\ \A x \in 0 .. group.rect.w, y \in 0 .. group.rect.h :
              Cardinality(RowsAt(group, x, y)) <= 1

\* C19 witness: three rows whose tops, truncated, are unevenly spaced, the
\* third starting exactly at the bottom of the second.
C19_Witness ==
    /\ group.status = "ok"
    /\ group.n_options >= 3
    /\ group.item_rects[3].y = group.item_rects[2].y + group.item_rects[2].h
    /\ group.item_rects[2].y > group.item_rects[1].y + group.item_rects[1].h

====
